---------------------------- MODULE Spec2Model ----------------------------
(***************************************************************************)
(* A model of the PR analyser's API route, src/app/api/analyze/route.ts:   *)
(* the POST handler (body, URL parsing, token check, PR fetch, paginated   *)
(* file-list fetch, analysis, response) as a state machine, and the pure   *)
(* functions parsePrUrl and analyze as operators on strings and records.   *)
(*                                                                         *)
(* JavaScript strings are TLA+ strings (Len, SubSeq and \o apply to them). *)
(* A JavaScript object is a record whose domain holds the properties that  *)
(* are present; a value of unknown type is a record tagged with its type.  *)
(* toMarkdown (lines 113-141) only formats the report, and the pr summary  *)
(* of the response is copied from the upstream reply: both are left out,   *)
(* the response body carries the report or the error.                      *)
(***************************************************************************)
EXTENDS Integers, Sequences, FiniteSets, TLC

VARIABLES
    pc,            \* the handler's position: the await it is suspended at
    body,          \* the request: what req.json() yields
    token,         \* process.env.GITHUB_TOKEN
    tokenChecked,  \* whether the handler has read the token (line 150)
    parsed,        \* parsePrUrl's result (line 147)
    upstream,      \* the file records GitHub holds for the pull request
    requests,      \* the upstream requests issued so far, in order
    page,          \* listAllFiles: the page being requested
    all,           \* listAllFiles: the records accumulated
    report,        \* analyze's outcome (line 166)
    response       \* the NextResponse the handler returned

vars == <<pc, body, token, tokenChecked, parsed, upstream, requests, page, all,
          report, response>>

---------------------------------------------------------------------------
(* JavaScript values and strings *)

Undefined == [t |-> "undefined"]
Null == [t |-> "null"]
Str(s) == [t |-> "string", v |-> s]
Num(n) == [t |-> "number", v |-> n]

\* JavaScript truthiness of a tagged value, as `input || ""` and `!token` use it
Truthy(x) ==
    CASE x.t = "undefined" -> FALSE
      [] x.t = "null" -> FALSE
      [] x.t = "string" -> x.v # ""
      [] x.t = "number" -> x.v # 0
      [] OTHER -> TRUE

CharAt(s, i) == SubSeq(s, i, i)

\* an array given element by element, as the tuple of its elements
Array(f) == <<>> \o f

LowerOf ==
    [A |-> "a", B |-> "b", C |-> "c", D |-> "d", E |-> "e", F |-> "f", G |-> "g",
     H |-> "h", I |-> "i", J |-> "j", K |-> "k", L |-> "l", M |-> "m", N |-> "n",
     O |-> "o", P |-> "p", Q |-> "q", R |-> "r", S |-> "s", T |-> "t", U |-> "u",
     V |-> "v", W |-> "w", X |-> "x", Y |-> "y", Z |-> "z"]

LowerChar(c) == IF c \in DOMAIN LowerOf THEN LowerOf[c] ELSE c

\* the /i flag: a literal is compared with the lower-cased subject
RECURSIVE ToLower(_)
ToLower(s) ==
    IF Len(s) = 0 THEN ""
    ELSE IF Len(s) = 1 THEN LowerChar(s)
    ELSE ToLower(SubSeq(s, 1, Len(s) \div 2))
             \o ToLower(SubSeq(s, Len(s) \div 2 + 1, Len(s)))

\* whether the literal lit occurs in s at position i
StartsWithAt(s, i, lit) ==
    /\ i >= 1
    /\ i + Len(lit) - 1 <= Len(s)
    /\ SubSeq(s, i, i + Len(lit) - 1) = lit

Contains(s, lit) == \E i \in 1..(Len(s) - Len(lit) + 1) : StartsWithAt(s, i, lit)

EndsWith(s, lit) == StartsWithAt(s, Len(s) - Len(lit) + 1, lit)

WhiteSpace == {" ", "\t", "\n", "\r"}

\* String.prototype.trim
RECURSIVE TrimStart(_)
TrimStart(s) ==
    IF s # "" /\ CharAt(s, 1) \in WhiteSpace THEN TrimStart(SubSeq(s, 2, Len(s)))
    ELSE s

RECURSIVE TrimEnd(_)
TrimEnd(s) ==
    IF s # "" /\ CharAt(s, Len(s)) \in WhiteSpace THEN TrimEnd(SubSeq(s, 1, Len(s) - 1))
    ELSE s

Trim(s) == TrimEnd(TrimStart(s))

DigitValue ==
    [c \in {"0", "1", "2", "3", "4", "5", "6", "7", "8", "9"} |->
        CASE c = "0" -> 0 [] c = "1" -> 1 [] c = "2" -> 2 [] c = "3" -> 3
          [] c = "4" -> 4 [] c = "5" -> 5 [] c = "6" -> 6 [] c = "7" -> 7
          [] c = "8" -> 8 [] c = "9" -> 9]

IsDigit(c) == c \in DOMAIN DigitValue

\* Number(m[4]) of a string of decimal digits
RECURSIVE ToNumber(_)
ToNumber(ds) ==
    IF ds = "" THEN 0
    ELSE 10 * ToNumber(SubSeq(ds, 1, Len(ds) - 1)) + DigitValue[CharAt(ds, Len(ds))]

\* the position of the first "/" of s at or after i, or 0 when there is none
RECURSIVE NextSlash(_, _)
NextSlash(s, i) ==
    IF i > Len(s) THEN 0
    ELSE IF CharAt(s, i) = "/" THEN i
    ELSE NextSlash(s, i + 1)

\* the end of the longest run of digits of s that starts at i (i - 1 when empty)
RECURSIVE DigitsEnd(_, _)
DigitsEnd(s, i) ==
    IF i <= Len(s) /\ IsDigit(CharAt(s, i)) THEN DigitsEnd(s, i + 1) ELSE i - 1

---------------------------------------------------------------------------
(* parsePrUrl, lines 4-11 *)

NoMatch == [matched |-> FALSE]

\* the regular expression of line 7 tried at position i of url:
\* https?:\/\/(www\.)?github\.com\/([^/]+)\/([^/]+)\/pull\/(\d+) with flag i
PrUrlMatchAt(url, i) ==
    LET low == ToLower(url)
        p1 == IF StartsWithAt(low, i, "https://") THEN i + 8
              ELSE IF StartsWithAt(low, i, "http://") THEN i + 7
              ELSE 0
        p2 == IF p1 = 0 THEN 0
              ELSE IF StartsWithAt(low, p1, "www.github.com/") THEN p1 + 15
              ELSE IF StartsWithAt(low, p1, "github.com/") THEN p1 + 11
              ELSE 0
        s1 == IF p2 = 0 THEN 0 ELSE NextSlash(url, p2)
        s2 == IF s1 = 0 THEN 0 ELSE NextSlash(url, s1 + 1)
        d1 == s2 + 6
        d2 == DigitsEnd(url, d1)
    IN  IF /\ p2 # 0
           /\ s1 > p2
           /\ s2 > s1 + 1
           /\ StartsWithAt(low, s2, "/pull/")
           /\ d2 >= d1
        THEN [matched |-> TRUE,
              owner |-> SubSeq(url, p2, s1 - 1),
              repo |-> SubSeq(url, s1 + 1, s2 - 1),
              number |-> SubSeq(url, d1, d2)]
        ELSE NoMatch

\* String.prototype.match without the g flag: the leftmost match
RECURSIVE PrUrlMatchFrom(_, _)
PrUrlMatchFrom(url, i) ==
    IF i > Len(url) THEN NoMatch
    ELSE IF PrUrlMatchAt(url, i).matched THEN PrUrlMatchAt(url, i)
    ELSE PrUrlMatchFrom(url, i + 1)

\* parsePrUrl applied to a value that survived `(input || "").trim()`, i.e. to
\* a string; null is [ok |-> FALSE]
parsePrUrlString(input) ==
    LET m == PrUrlMatchFrom(Trim(input), 1)
    IN  IF ~m.matched THEN [ok |-> FALSE]
        ELSE [ok |-> TRUE, owner |-> m.owner, repo |-> m.repo,
              pull_number |-> ToNumber(m.number)]

\* line 5: a falsy input becomes "", a truthy input that is no string has no
\* trim method and the call throws a TypeError
TrimThrows(input) == Truthy(input) /\ input.t # "string"

parsePrUrl(input) ==
    parsePrUrlString(IF Truthy(input) THEN input.v ELSE "")

---------------------------------------------------------------------------
(* analyze, lines 33-111 *)

per_page == 100
TopN == 8
ManyFiles == 25
HighChurn == 800

\* `f.k || 0` for a numeric property k of a file record
NumOr0(f, k) == IF k \in DOMAIN f THEN f[k] ELSE 0

\* a property that is copied as it is: its value, or undefined when absent
Prop(f, k) == IF k \in DOMAIN f THEN Str(f[k]) ELSE Undefined

\* the object the map callback returns, lines 42-48
FileStat(f) ==
    [filename |-> Prop(f, "filename"),
     additions |-> NumOr0(f, "additions"),
     deletions |-> NumOr0(f, "deletions"),
     changes |-> NumOr0(f, "changes"),
     status |-> Prop(f, "status")]

FileStats(files) == Array([i \in 1..Len(files) |-> FileStat(files[i])])

\* a mutant of SumProp: `=` for `+=`, only the last record counts
SumProp_LastOnly(files, k, lo, hi) == IF lo > hi THEN 0 ELSE NumOr0(files[hi], k)

\* the accumulation of lines 40-41 over records lo..hi, halved so that a long
\* list does not nest deeply (addition is associative)
RECURSIVE SumProp(_, _, _, _)
SumProp(files, k, lo, hi) ==
    IF lo > hi THEN 0
    ELSE IF lo = hi THEN NumOr0(files[lo], k)
    ELSE LET mid == (lo + hi) \div 2
         IN  SumProp(files, k, lo, mid) + SumProp(files, k, mid + 1, hi)

\* a mutant of Merge: an unstable sort, on equal keys the indices of b come first
Merge_Unstable(keys, a, b) ==
    LET posA == Array([i \in 1..Len(a) |->
                    i + Cardinality({j \in 1..Len(b) : keys[b[j]] >= keys[a[i]]})])
        posB == Array([j \in 1..Len(b) |->
                    j + Cardinality({i \in 1..Len(a) : keys[a[i]] > keys[b[j]]})])
    IN  Array([r \in 1..(Len(a) + Len(b)) |->
            IF \E i \in 1..Len(a) : posA[i] = r
            THEN a[CHOOSE i \in 1..Len(a) : posA[i] = r]
            ELSE b[CHOOSE j \in 1..Len(b) : posB[j] = r]])

\* the stable merge of two index lists that are each in descending key order:
\* on equal keys the indices of a come first
Merge(keys, a, b) ==
    LET posA == Array([i \in 1..Len(a) |->
                    i + Cardinality({j \in 1..Len(b) : keys[b[j]] > keys[a[i]]})])
        posB == Array([j \in 1..Len(b) |->
                    j + Cardinality({i \in 1..Len(a) : keys[a[i]] >= keys[b[j]]})])
    IN  Array([r \in 1..(Len(a) + Len(b)) |->
            IF \E i \in 1..Len(a) : posA[i] = r
            THEN a[CHOOSE i \in 1..Len(a) : posA[i] = r]
            ELSE b[CHOOSE j \in 1..Len(b) : posB[j] = r]])

\* Array.prototype.sort with the comparator (a, b) => key(b) - key(a), a stable
\* merge sort: the indices lo..hi of keys in the order the sort leaves them
RECURSIVE SortedIndices(_, _, _)
SortedIndices(keys, lo, hi) ==
    IF lo > hi THEN <<>>
    ELSE IF lo = hi THEN <<lo>>
    ELSE LET mid == (lo + hi) \div 2
         IN  Merge(keys, SortedIndices(keys, lo, mid), SortedIndices(keys, mid + 1, hi))

SortDesc(keys) == SortedIndices(keys, 1, Len(keys))

\* slice(0, n)
Slice0(s, n) == SubSeq(s, 1, IF Len(s) < n THEN Len(s) ELSE n)

\* line 54
BiggestFiles(stats) ==
    LET order == SortDesc(Array([i \in 1..Len(stats) |-> stats[i].changes]))
    IN  Slice0(Array([r \in 1..Len(order) |-> stats[order[r]]]), TopN)

\* String.prototype.split("/")
RECURSIVE Split(_)
Split(s) ==
    LET k == NextSlash(s, 1)
    IN  IF k = 0 THEN <<s>>
        ELSE <<SubSeq(s, 1, k - 1)>> \o Split(SubSeq(s, k + 1, Len(s)))

\* Array.prototype.join
RECURSIVE Join(_, _)
Join(parts, sep) ==
    IF Len(parts) = 0 THEN ""
    ELSE IF Len(parts) = 1 THEN parts[1]
    ELSE LET h == Len(parts) \div 2
         IN  Join(SubSeq(parts, 1, h), sep) \o sep \o Join(SubSeq(parts, h + 1, Len(parts)), sep)

\* line 59
DirOf(filename) ==
    LET joined == Join(Slice0(Split(filename), 2), "/")
    IN  IF joined = "" THEN "(root)" ELSE joined

\* the position of key dir among the map's entries, or 0
MapIndex(entries, dir) ==
    LET hits == {i \in 1..Len(entries) : entries[i][1] = dir}
    IN  IF hits = {} THEN 0 ELSE CHOOSE i \in hits : TRUE

\* `dirMap.get(dir) || 0`
MapGet(entries, dir) ==
    IF MapIndex(entries, dir) = 0 THEN 0 ELSE entries[MapIndex(entries, dir)][2]

\* dirMap.set(dir, (dirMap.get(dir) || 0) + changes): a Map keeps its keys in
\* the order of their first insertion
MapAdd(entries, dir, changes) ==
    LET k == MapIndex(entries, dir)
    IN  IF k = 0 THEN Append(entries, <<dir, changes>>)
        ELSE [entries EXCEPT ![k] = <<dir, MapGet(entries, dir) + changes>>]

\* the map after the insertions that built a followed by those that built b:
\* the keys of a keep their place and gain b's sums, b's new keys follow
MapMerge(a, b) ==
    Array([i \in 1..Len(a) |-> <<a[i][1], a[i][2] + MapGet(b, a[i][1])>>])
        \o SelectSeq(b, LAMBDA e : MapIndex(a, e[1]) = 0)

\* the loop of lines 58-61 over stats lo..hi: [...dirMap.entries()]. The loop
\* is halved so that a long list does not nest deeply.
RECURSIVE DirMap(_, _, _)
DirMap(stats, lo, hi) ==
    IF lo > hi THEN <<>>
    ELSE IF lo = hi
    THEN MapAdd(<<>>, DirOf(stats[lo].filename.v), stats[lo].changes)
    ELSE LET mid == (lo + hi) \div 2
         IN  MapMerge(DirMap(stats, lo, mid), DirMap(stats, mid + 1, hi))

\* lines 62-65
Hotspots(stats) ==
    LET entries == DirMap(stats, 1, Len(stats))
        order == SortDesc(Array([i \in 1..Len(entries) |-> entries[i][2]]))
        top == Slice0(Array([r \in 1..Len(order) |-> entries[order[r]]]), TopN)
    IN  Array([r \in 1..Len(top) |-> [dir |-> top[r][1], churn |-> top[r][2]]])

\* a mutant of FilenamesJoined: only the last filename is tested
FilenamesJoined_LastOnly(stats) ==
    IF Len(stats) = 0 THEN "" ELSE stats[Len(stats)].filename.v

\* line 80
FilenamesJoined(stats) ==
    Join(Array([i \in 1..Len(stats) |-> stats[i].filename.v]), "\n")

\* lines 82-87: each regular expression is an alternation of literals, flag i
patterns ==
    << [alts |-> {"auth", "security", "oauth", "jwt", "password", "login"},
        pts |-> 3, reason |-> "Touches auth/security related code"],
       [alts |-> {"migration", "migrations", "schema", "db", "database"},
        pts |-> 3, reason |-> "Touches database/migrations/schema"],
       [alts |-> {"github/workflows", "ci", "terraform", "helm", "k8s", "kubernetes"},
        pts |-> 2, reason |-> "Touches CI/infra config"],
       [alts |-> {"package-lock.json", "yarn.lock", "pnpm-lock.yaml",
                  "requirements.txt", "poetry.lock"},
        pts |-> 2, reason |-> "Touches dependency lockfiles"] >>

\* p.re.test(s), given s lower-cased (the flag i)
PatternTest(p, low) == \E alt \in p.alts : Contains(low, alt)

CodeExtensions == {"ts", "tsx", "js", "jsx", "py", "java", "go", "cs", "rb", "php"}

\* line 96: /\.(ts|tsx|js|jsx|py|java|go|cs|rb|php)$/i
IsCodeFile(filename) ==
    LET low == ToLower(filename) IN \E ext \in CodeExtensions : EndsWith(low, "." \o ext)

WordChars ==
    {"a", "b", "c", "d", "e", "f", "g", "h", "i", "j", "k", "l", "m", "n", "o", "p",
     "q", "r", "s", "t", "u", "v", "w", "x", "y", "z",
     "0", "1", "2", "3", "4", "5", "6", "7", "8", "9", "_"}

IsWordAt(low, i) == i >= 1 /\ i <= Len(low) /\ CharAt(low, i) \in WordChars

\* \b between positions e and e + 1 of a lower-cased string
WordBoundary(low, e) == IsWordAt(low, e) # IsWordAt(low, e + 1)

\* line 97: /(^|\/)(test|tests|__tests__)\b|\.spec\.|\.test\./i
IsTestFile(filename) ==
    LET low == ToLower(filename)
    IN  \/ \E w \in 1..Len(low) :
              /\ w = 1 \/ CharAt(low, w - 1) = "/"
              /\ \E word \in {"test", "tests", "__tests__"} :
                     /\ StartsWithAt(low, w, word)
                     /\ WordBoundary(low, w + Len(word) - 1)
        \/ Contains(low, ".spec.")
        \/ Contains(low, ".test.")

hasCodeTouched(stats) == \E i \in 1..Len(stats) : IsCodeFile(stats[i].filename.v)
hasTestsTouched(stats) == \E i \in 1..Len(stats) : IsTestFile(stats[i].filename.v)

\* a mutant of Flag: `score = pts` for `score += pts`
Flag_Overwrite(risk, cond, pts, reason) ==
    IF cond THEN [score |-> pts, reasons |-> Append(risk.reasons, reason)]
    ELSE risk

\* `if (cond) { score += pts; reasons.push(reason) }`
Flag(risk, cond, pts, reason) ==
    IF cond THEN [score |-> risk.score + pts, reasons |-> Append(risk.reasons, reason)]
    ELSE risk

\* the loop of lines 89-94 over the first n patterns
RECURSIVE PatternFlags(_, _, _)
PatternFlags(risk, low, n) ==
    IF n = 0 THEN risk
    ELSE Flag(PatternFlags(risk, low, n - 1),
              PatternTest(patterns[n], low), patterns[n].pts, patterns[n].reason)

\* lines 68-101
Risk(stats, totalFiles, churn) ==
    LET r0 == [score |-> 0, reasons |-> <<>>]
        r1 == Flag(r0, totalFiles >= ManyFiles, 2, "Large PR: many files changed")
        r2 == Flag(r1, churn >= HighChurn, 2, "Large PR: high churn (additions + deletions)")
        r3 == PatternFlags(r2, ToLower(FilenamesJoined(stats)), Len(patterns))
    IN  Flag(r3, hasCodeTouched(stats) /\ ~hasTestsTouched(stats), 2,
             "Code changed but tests were not updated")

\* a mutant of LevelOf: `>` for `>=` at the upper threshold
LevelOf_Strict(score) == IF score > 6 THEN "high" ELSE IF score >= 3 THEN "medium" ELSE "low"

\* line 103
LevelOf(score) == IF score >= 6 THEN "high" ELSE IF score >= 3 THEN "medium" ELSE "low"

\* line 59 reads f.filename.split: a record without a filename throws there
SplitThrows(files) == \E i \in 1..Len(files) : "filename" \notin DOMAIN files[i]

analyze(files) ==
    IF SplitThrows(files)
    THEN [threw |-> TRUE,
          message |-> "Cannot read properties of undefined (reading 'split')"]
    ELSE LET stats == FileStats(files)
             totalFiles == Len(files)
             additions == SumProp(files, "additions", 1, Len(files))
             deletions == SumProp(files, "deletions", 1, Len(files))
             churn == additions + deletions
             risk == Risk(stats, totalFiles, churn)
         IN  [threw |-> FALSE,
              metrics |-> [totalFiles |-> totalFiles, additions |-> additions,
                           deletions |-> deletions, churn |-> churn],
              risk |-> [level |-> LevelOf(risk.score), score |-> risk.score,
                        reasons |-> risk.reasons],
              hotspots |-> Hotspots(stats),
              biggestFiles |-> BiggestFiles(stats)]

---------------------------------------------------------------------------
(* The inputs: request bodies, tokens and upstream file lists *)

MaxFiles == 2

\* values of the prUrl property of the request body
PrUrls ==
    {Str("https://github.com/o/r/pull/12"),
     Str("  see http://www.GitHub.com/Own/re.po/PULL/007/files\n"),
     Str("https://github.com/o/r/pull/"),
     Str("https://github.com/o/r/issues/12"),
     Str("https://github.com/o//pull/12"),
     Str("https://gitlab.com/o/r/pull/12"),
     Str("github.com/o/r/pull/12"),
     Str("   "),
     Str(""),
     Undefined,
     Null,
     Num(0),
     Num(123),
     [t |-> "object"]}

\* what req.json() yields: a rejection (the body is no JSON) or an object
Bodies == {[json |-> FALSE]} \cup {[json |-> TRUE, prUrl |-> u] : u \in PrUrls}

Tokens == {Undefined, Str(""), Str("ghp_x")}

\* file records as the upstream may send them; a property may be absent
FilePool ==
    {[filename |-> "src/auth/login.ts", additions |-> 50, deletions |-> 10,
      changes |-> 60, status |-> "modified"],
     [filename |-> "README.md", additions |-> 5, deletions |-> 0,
      changes |-> 5, status |-> "modified"],
     [filename |-> "db/schema.sql", additions |-> 799, deletions |-> 1,
      changes |-> 800, status |-> "added"],
     [filename |-> ".github/workflows/ci.yml", additions |-> 2, deletions |-> 3,
      changes |-> 5, status |-> "modified"],
     [filename |-> "package-lock.json", additions |-> 799, deletions |-> 0,
      changes |-> 799, status |-> "modified"],
     [filename |-> "tests/login.test.ts", additions |-> 20, deletions |-> 0,
      changes |-> 20, status |-> "added"],
     [filename |-> "src/util.ts", additions |-> 3, deletions |-> 2,
      changes |-> 5, status |-> "modified"],
     [filename |-> "src/testing/Run.PY", additions |-> 1, deletions |-> 1,
      changes |-> 2, status |-> "renamed"],
     [filename |-> "src/__tests__/a.js", additions |-> 0, deletions |-> 4,
      changes |-> 4, status |-> "removed"],
     [filename |-> "docs/Security.MD"],
     [filename |-> "", additions |-> 1, changes |-> 1],
     [additions |-> 1, deletions |-> 1, changes |-> 2, status |-> "modified"]}

RECURSIVE SeqsUpTo(_, _)
SeqsUpTo(S, n) ==
    IF n = 0 THEN {<<>>}
    ELSE LET shorter == SeqsUpTo(S, n - 1)
         IN  shorter \cup {Append(q, x) : q \in shorter, x \in S}

BulkDirs ==
    <<"pkg/a", "pkg/b", "lib/x", "lib/y", "img", "res/x", "etc/y", "var/z", "one",
      "two/k", "web/u">>

\* the i-th record of a large pull request
BulkFile(i) ==
    [filename |-> BulkDirs[(i % Len(BulkDirs)) + 1] \o "/f" \o ToString(i) \o ".md",
     additions |-> (i % 4) * 3, deletions |-> i % 3,
     changes |-> (i % 4) * 3 + (i % 3), status |-> "modified"]

Bulk(n) == Array([i \in 1..n |-> BulkFile(i)])

BulkSizes == {9, 24, 99, 100, 200}

\* the file lists a pull request may hold: every short list over the pool, and
\* large lists with at most one pool record ahead of them
UpstreamFileLists ==
    SeqsUpTo(FilePool, MaxFiles)
        \cup {q \o Bulk(n) : q \in SeqsUpTo(FilePool, 1), n \in BulkSizes}

---------------------------------------------------------------------------
(* The POST handler, lines 143-182 *)

NoResponse == [sent |-> FALSE]
NoReport == [done |-> FALSE]

\* NextResponse.json({ error }, { status })
ErrorResponse(status, message) ==
    [sent |-> TRUE, status |-> status, body |-> [error |-> message]]

\* NextResponse.json({ pr, report, markdown }), lines 169-178
OkResponse(rep) == [sent |-> TRUE, status |-> 200, body |-> [report |-> rep]]

PrRequest(p) ==
    [route |-> "GET /repos/{owner}/{repo}/pulls/{pull_number}",
     owner |-> p.owner, repo |-> p.repo, pull_number |-> p.pull_number]

\* the request of lines 19-25
FilesRequest(p, pg) ==
    [route |-> "GET /repos/{owner}/{repo}/pulls/{pull_number}/files",
     owner |-> p.owner, repo |-> p.repo, pull_number |-> p.pull_number,
     per_page |-> per_page, page |-> pg]

\* what the upstream returns for a page of size n: that slice of its list
PageOf(files, pg, n) ==
    SubSeq(files, (pg - 1) * n + 1, IF pg * n < Len(files) THEN pg * n ELSE Len(files))

Init ==
    /\ pc = "readBody"
    /\ body \in Bodies
    /\ token \in Tokens
    /\ tokenChecked = FALSE
    /\ parsed = [ok |-> FALSE]
    /\ upstream = <<>>
    /\ requests = <<>>
    /\ page = 0
    /\ all = <<>>
    /\ report = NoReport
    /\ response = NoResponse

\* the catch clause of lines 179-181
Catch(message) ==
    /\ pc' = "done"
    /\ response' = ErrorResponse(500, message)

\* line 145: await req.json()
ReadBody ==
    /\ pc = "readBody"
    /\ IF body.json
       THEN pc' = "parseUrl" /\ UNCHANGED response
       ELSE Catch("Unexpected token in JSON")
    /\ UNCHANGED <<body, token, tokenChecked, parsed, upstream, requests, page, all,
                   report>>

\* lines 147-148
CheckUrl ==
    /\ pc = "parseUrl"
    /\ IF TrimThrows(body.prUrl)
       THEN Catch("(input || \"\").trim is not a function") /\ UNCHANGED parsed
       ELSE /\ parsed' = parsePrUrl(body.prUrl)
            /\ IF parsed'.ok
               THEN pc' = "checkToken" /\ UNCHANGED response
               ELSE pc' = "done" /\ response' = ErrorResponse(400, "Invalid GitHub PR URL")
    /\ UNCHANGED <<body, token, tokenChecked, upstream, requests, page, all, report>>

\* a mutant of TokenMissing: `token === undefined`, an empty token passes
TokenMissing_UnsetOnly(tok) == tok.t = "undefined"

\* `!token`, line 151
TokenMissing(tok) == ~Truthy(tok)

\* lines 150-162: the token check, then the request for the pull request
CheckToken ==
    /\ pc = "checkToken"
    /\ tokenChecked' = TRUE
    /\ IF TokenMissing(token)
       THEN /\ pc' = "done"
            /\ response' = ErrorResponse(500, "Missing GITHUB_TOKEN in .env.local")
            /\ UNCHANGED requests
       ELSE /\ pc' = "awaitPr"
            /\ requests' = Append(requests, PrRequest(parsed))
            /\ UNCHANGED response
    /\ UNCHANGED <<body, token, parsed, upstream, page, all, report>>

\* the upstream rejects a request: octokit throws, the handler catches
UpstreamFails ==
    /\ pc \in {"awaitPr", "awaitFiles"}
    /\ Catch("Not Found")
    /\ UNCHANGED <<body, token, tokenChecked, parsed, upstream, requests, page, all,
                   report>>

\* lines 156-164 and 14-25: the pull request arrives, listAllFiles starts and
\* requests page 1. Which files the pull request holds is the upstream's choice.
PrArrives ==
    /\ pc = "awaitPr"
    /\ upstream' \in UpstreamFileLists
    /\ page' = 1
    /\ all' = <<>>
    /\ requests' = Append(requests, FilesRequest(parsed, 1))
    /\ pc' = "awaitFiles"
    /\ UNCHANGED <<body, token, tokenChecked, parsed, report, response>>

\* a mutant of LastPage: `<=` for `<`, a full page ends the loop
LastPage_Inclusive(data) == Len(data) <= per_page

\* line 27
LastPage(data) == Len(data) < per_page

\* lines 26-30 and 19-25: a page arrives; listAllFiles returns or asks for the next
PageArrives ==
    /\ pc = "awaitFiles"
    /\ LET data == PageOf(upstream, page, requests[Len(requests)].per_page)
       IN  /\ all' = all \o data
           /\ IF LastPage(data)
              THEN pc' = "analyze" /\ UNCHANGED <<page, requests>>
              ELSE /\ page' = page + 1
                   /\ requests' = Append(requests, FilesRequest(parsed, page + 1))
                   /\ pc' = "awaitFiles"
    /\ UNCHANGED <<body, token, tokenChecked, parsed, upstream, report, response>>

\* lines 166-178: analyze, then the response; an error analyze throws is caught
Analyze ==
    /\ pc = "analyze"
    /\ LET rep == analyze(all)
       IN  /\ report' = [done |-> TRUE, value |-> rep]
           /\ IF rep.threw
              THEN Catch(rep.message)
              ELSE pc' = "done" /\ response' = OkResponse(rep)
    /\ UNCHANGED <<body, token, tokenChecked, parsed, upstream, requests, page, all>>

Next ==
    \/ ReadBody
    \/ CheckUrl
    \/ CheckToken
    \/ UpstreamFails
    \/ PrArrives
    \/ PageArrives
    \/ Analyze

Spec == Init /\ [][Next]_vars

---------------------------------------------------------------------------
(* What the claims are stated with *)

\* analyze has run on `all` and returned a report
Analyzed == report.done /\ ~report.value.threw

\* listAllFiles has returned
Listed == pc = "analyze" \/ report.done

\* the value of property k of record f, 0 when the property is absent
ValueOr0(f, k) == IF k \in DOMAIN f THEN f[k] ELSE 0

\* the sum over the records `which` of files of property k, by counting:
\* a unit for every (record, 1..value) pair
Total(files, k, which) ==
    Cardinality(UNION {{<<i, u>> : u \in 1..ValueOr0(files[i], k)} : i \in which})

Indices(files) == Array([i \in 1..Len(files) |-> i])

\* the place of index i when indices are ordered by key descending and, among
\* equal keys, by position
PlaceOf(keys, i) ==
    1 + Cardinality({j \in 1..Len(keys) :
                        keys[j] > keys[i] \/ (keys[j] = keys[i] /\ j < i)})

\* the first n of the indices of keys, largest key first, ties in their order
TopIndices(keys, n) ==
    LET place == Array([i \in 1..Len(keys) |-> PlaceOf(keys, i)])
        m == IF Len(keys) < n THEN Len(keys) ELSE n
    IN  Array([r \in 1..m |-> CHOOSE i \in 1..Len(keys) : place[i] = r])

Descending(keys) == \A r \in 1..(Len(keys) - 1) : keys[r] >= keys[r + 1]

\* the indices of the records of files whose directory key occurs there first
FirstOfDir(files) ==
    SelectSeq(Indices(files),
              LAMBDA i : \A j \in 1..(i - 1) : DirOf(files[j].filename) # DirOf(files[i].filename))

\* the directories of files in the order they are first met, with their churn
DirTotals(files) ==
    LET firsts == FirstOfDir(files)
    IN  Array([r \in 1..Len(firsts) |->
            [dir |-> DirOf(files[firsts[r]].filename),
             churn |-> Total(files, "changes",
                             {i \in 1..Len(files) :
                                 DirOf(files[i].filename) = DirOf(files[firsts[r]].filename)})]])

\* whether the filename contains one of the words, letter case ignored
Mentions(filename, words) == \E w \in words : Contains(ToLower(filename), w)

AnyFile(files, Test(_)) == \E i \in 1..Len(files) : Test(files[i].filename)

\* the seven triggers in evaluation order, with whether each holds for files
Triggers(files) ==
    << [reason |-> "Large PR: many files changed", pts |-> 2,
        holds |-> Len(files) >= 25],
       [reason |-> "Large PR: high churn (additions + deletions)", pts |-> 2,
        holds |-> Total(files, "additions", 1..Len(files))
                      + Total(files, "deletions", 1..Len(files)) >= 800],
       [reason |-> "Touches auth/security related code", pts |-> 3,
        holds |-> AnyFile(files, LAMBDA fn : Mentions(fn,
                      {"auth", "security", "oauth", "jwt", "password", "login"}))],
       [reason |-> "Touches database/migrations/schema", pts |-> 3,
        holds |-> AnyFile(files, LAMBDA fn : Mentions(fn,
                      {"migration", "migrations", "schema", "db", "database"}))],
       [reason |-> "Touches CI/infra config", pts |-> 2,
        holds |-> AnyFile(files, LAMBDA fn : Mentions(fn,
                      {"github/workflows", "ci", "terraform", "helm", "k8s", "kubernetes"}))],
       [reason |-> "Touches dependency lockfiles", pts |-> 2,
        holds |-> AnyFile(files, LAMBDA fn : Mentions(fn,
                      {"package-lock.json", "yarn.lock", "pnpm-lock.yaml",
                       "requirements.txt", "poetry.lock"}))],
       [reason |-> "Code changed but tests were not updated", pts |-> 2,
        holds |-> AnyFile(files, IsCodeFile) /\ ~AnyFile(files, IsTestFile)] >>

\* whether the filename matches one of the four filename patterns
MatchesTrigger(filename) == \E k \in 1..Len(patterns) : Mentions(filename, patterns[k].alts)

\* the list without its last record, and that record's filename
Front(files) == SubSeq(files, 1, Len(files) - 1)
LastName(files) == files[Len(files)].filename

\* adding the last record took away "code changed without tests": it is a test
\* file and the records before it held code and no test file
TestsArrived(files) ==
    /\ IsTestFile(LastName(files))
    /\ AnyFile(Front(files), IsCodeFile)
    /\ ~AnyFile(Front(files), IsTestFile)

\* the requests listAllFiles has issued: those after the pull-request one
FileRequests == SubSeq(requests, 2, Len(requests))

\* whether a prUrl value matches the PR-URL pattern
MatchesPrUrl(v) == v.t = "string" /\ PrUrlMatchFrom(v.v, 1).matched

---------------------------------------------------------------------------
(* The claims *)

\* C1: the level of a returned report is decided by its score alone: "high"
\* exactly when score >= 6, "medium" exactly when 3 <= score < 6, "low"
\* exactly when score < 3.
C1_LevelFromScore ==
    Analyzed =>
        LET r == report.value.risk
        IN  /\ r.level \in {"low", "medium", "high"}
            /\ r.level = "high" <=> r.score >= 6
            /\ r.level = "medium" <=> (r.score >= 3 /\ r.score < 6)
            /\ r.level = "low" <=> r.score < 3

\* a report at the boundary score 6, which is "high"
C1_Witness ==
    Analyzed /\ report.value.risk.score = 6 /\ report.value.risk.level = "high"

\* C2 as stated: appending a record whose filename matches a trigger pattern
\* never lowers the score, whatever the record.
C2_Original ==
    (Analyzed /\ Len(all) >= 1 /\ MatchesTrigger(LastName(all))) =>
        report.value.risk.score >= analyze(Front(all)).risk.score

\* C2 amended: appending a record whose filename matches a trigger pattern
\* never lowers the score, unless the record is a test file appended to records
\* that hold code and no test file.
C2_MonotoneUnlessTestsArrive ==
    (Analyzed /\ Len(all) >= 1 /\ MatchesTrigger(LastName(all)) /\ ~TestsArrived(all)) =>
        report.value.risk.score >= analyze(Front(all)).risk.score

\* a matching test file appended to records that already hold a test file
C2_Witness ==
    /\ Analyzed
    /\ Len(all) = 2
    /\ MatchesTrigger(LastName(all))
    /\ IsTestFile(LastName(all))
    /\ AnyFile(Front(all), IsCodeFile)
    /\ ~TestsArrived(all)
    /\ report.value.risk.score >= analyze(Front(all)).risk.score

\* C3: analyze returns a report for every file list, whichever properties its
\* records lack.
C3_NeverFails == report.done => ~report.value.threw

\* the directory key as C4 states it: "(root)" for a filename without "/",
\* else the first two "/"-separated components
RootOrTwoSegments(filename) ==
    IF ~Contains(filename, "/") THEN "(root)"
    ELSE Join(Slice0(Split(filename), 2), "/")

\* C4: every file is aggregated under its first two path components, and under
\* "(root)" when its filename has no "/"; the hotspot's churn is the sum of
\* `changes` over the files with that key (lists of at most 8 files, so that no
\* hotspot is cut off).
C4_RootSentinel ==
    (Analyzed /\ Len(all) <= TopN) =>
        \A i \in 1..Len(all) :
            \E h \in 1..Len(report.value.hotspots) :
                /\ report.value.hotspots[h].dir = RootOrTwoSegments(all[i].filename)
                /\ report.value.hotspots[h].churn =
                       Total(all, "changes",
                             {j \in 1..Len(all) :
                                 RootOrTwoSegments(all[j].filename)
                                     = RootOrTwoSegments(all[i].filename)})

\* C5: hotspots and biggestFiles hold at most 8 entries, in descending order of
\* summed churn and of `changes`, the 8 largest when there are more, and equal
\* keys in input order (files) or in the order the directory was first met.
C5_TopEightStable ==
    Analyzed =>
        LET big == report.value.biggestFiles
            hot == report.value.hotspots
            dirs == DirTotals(all)
            topFiles == TopIndices(Array([i \in 1..Len(all) |-> ValueOr0(all[i], "changes")]), 8)
            topDirs == TopIndices(Array([i \in 1..Len(dirs) |-> dirs[i].churn]), 8)
        IN  /\ Len(big) <= 8 /\ Len(hot) <= 8
            /\ Descending(Array([r \in 1..Len(big) |-> big[r].changes]))
            /\ Descending(Array([r \in 1..Len(hot) |-> hot[r].churn]))
            /\ Len(big) = Len(topFiles)
            /\ \A r \in 1..Len(big) :
                   /\ big[r].filename = Str(all[topFiles[r]].filename)
                   /\ big[r].changes = ValueOr0(all[topFiles[r]], "changes")
                   /\ big[r].additions = ValueOr0(all[topFiles[r]], "additions")
                   /\ big[r].deletions = ValueOr0(all[topFiles[r]], "deletions")
            /\ hot = Array([r \in 1..Len(topDirs) |-> dirs[topDirs[r]]])

\* more than 8 files and more than 8 directories, with equal keys among the
\* entries kept
C5_Witness ==
    /\ Analyzed
    /\ Len(all) > 8
    /\ Len(DirTotals(all)) > 8
    /\ report.value.biggestFiles[1].changes = report.value.biggestFiles[2].changes
    /\ \E r \in 1..7 : report.value.hotspots[r].churn = report.value.hotspots[r + 1].churn

\* C6: totalFiles is the number of records, additions and deletions are the
\* sums of those properties (an absent one counting 0), churn is their sum;
\* the empty list gives zeros, level "low" and empty lists.
C6_Metrics ==
    Analyzed =>
        LET m == report.value.metrics
        IN  /\ m.totalFiles = Len(all)
            /\ m.additions = Total(all, "additions", 1..Len(all))
            /\ m.deletions = Total(all, "deletions", 1..Len(all))
            /\ m.churn = m.additions + m.deletions
            /\ all = <<>> =>
                   /\ m.totalFiles = 0 /\ m.churn = 0
                   /\ report.value.risk.level = "low"
                   /\ report.value.risk.reasons = <<>>
                   /\ report.value.hotspots = <<>>
                   /\ report.value.biggestFiles = <<>>

\* a report on records of which one lacks its numeric properties
C6_Witness ==
    /\ Analyzed
    /\ \E i \in 1..Len(all) : "additions" \notin DOMAIN all[i]
    /\ \E i \in 1..Len(all) : "deletions" \notin DOMAIN all[i] /\ "additions" \in DOMAIN all[i]
    /\ report.value.metrics.churn > 0

\* C7: the reasons are those of the seven triggers that hold, each once and in
\* evaluation order, and the score is the sum of their points.
C7_ReasonsInOrder ==
    Analyzed =>
        LET present == SelectSeq(Triggers(all), LAMBDA g : g.holds)
        IN  /\ report.value.risk.reasons = Array([r \in 1..Len(present) |-> present[r].reason])
            /\ report.value.risk.score =
                   Total(Array([r \in 1..Len(present) |-> [pts |-> present[r].pts]]),
                         "pts", 1..Len(present))

\* a report with both size reasons, a pattern reason and the tests reason
C7_Witness ==
    /\ Analyzed
    /\ report.value.risk.reasons =
           << "Large PR: many files changed",
              "Large PR: high churn (additions + deletions)",
              "Touches auth/security related code",
              "Code changed but tests were not updated" >>
    /\ report.value.risk.score = 9

\* C8: a request whose prUrl does not match the PR-URL pattern, a prUrl that
\* is absent, empty or no string included, is answered 400 "Invalid GitHub PR
\* URL", with the token unread and no upstream request issued.
C8_InvalidUrl400 ==
    (response.sent /\ body.json /\ ~MatchesPrUrl(body.prUrl)) =>
        /\ response = ErrorResponse(400, "Invalid GitHub PR URL")
        /\ ~tokenChecked
        /\ requests = <<>>

\* C9 as stated: a valid PR URL without a configured token is answered 500
\* "Missing token configuration" and no upstream request is issued.
C9_Original ==
    (response.sent /\ parsed.ok /\ ~Truthy(token)) =>
        /\ response = ErrorResponse(500, "Missing token configuration")
        /\ requests = <<>>

\* C9 amended: a valid PR URL without a configured token (unset or empty) is
\* answered 500 "Missing GITHUB_TOKEN in .env.local" and no upstream request
\* is issued.
C9_MissingToken500 ==
    /\ (parsed.ok /\ ~Truthy(token)) => requests = <<>>
    /\ (response.sent /\ parsed.ok /\ ~Truthy(token)) =>
           response = ErrorResponse(500, "Missing GITHUB_TOKEN in .env.local")

\* a valid PR URL answered while the token is the empty string
C9_Witness == response.sent /\ parsed.ok /\ token = Str("") /\ tokenChecked

\* C10: listAllFiles requests pages 1, 2, 3, ... of size 100, requests a next
\* page only after a full one, and on return has issued floor(N/100)+1
\* requests and holds all N records in page order.
C10_Pagination ==
    LET fr == FileRequests
    IN  /\ \A j \in 1..Len(fr) : fr[j].page = j /\ fr[j].per_page = 100
        /\ \A j \in 1..(Len(fr) - 1) : Len(upstream) >= j * 100
        /\ pc = "awaitFiles" => all = SubSeq(upstream, 1, (Len(fr) - 1) * 100)
        /\ Listed => /\ Len(fr) = (Len(upstream) \div 100) + 1
                     /\ all = upstream

\* 200 records: two full pages and an empty third one
C10_Witness ==
    Listed /\ Len(upstream) = 200 /\ Len(FileRequests) = 3 /\ Len(all) = 200

===========================================================================
